---- MODULE Spec2Model ----
(***************************************************************************)
(* Verification model of scripts/extract_data.py (with scripts/config.py): *)
(* the per-run extraction job that fetches orders per country, merges the  *)
(* GOLD and silver slices, computes metrics, and writes versioned JSON     *)
(* artifacts, a data-manifest.json and prunes old versions.                *)
(*                                                                         *)
(* Spec      the run / artifact-store state machine of main()              *)
(* SpecData  the per-country data pipeline of main() on bounded inputs     *)
(* SpecMonth the same pipeline on runs over the days of a whole month      *)
(* SpecMetrics        calculate_metrics and calculate_channel_metrics      *)
(* SpecMovingAverage  calculate_moving_average                             *)
(***************************************************************************)
EXTENDS Integers, Sequences, FiniteSets, TLC

(***************************************************************************)
(* Program constants                                                       *)
(***************************************************************************)
\* config.py:12  COUNTRIES = ["PH", "VN"], in processing order
COUNTRIES == <<"PH", "VN">>

\* extract_data.py:796  cleanup_old_versions(keep_versions=5)
keep_versions == 5

\* extract_data.py:642-662  the six queries issued per country
NumQueries == 6

(***************************************************************************)
(* Bounds of the model                                                     *)
(***************************************************************************)
\* seconds the clock may advance after the initial history
MaxAdvance == 2
\* number of runs of main() explored after the initial history
MaxRuns == 2

VARIABLES
    clock,          \* last value read from datetime.now(timezone.utc), in seconds
    runNo,          \* number of the current (or last) run of main()
    pc,             \* position of main(): "exited" between runs
    idx,            \* index into COUNTRIES of the loop in main() / cleanup
    manifest,       \* main()'s in-memory dict: country_lower -> versioned filename
    versioned,      \* store: country -> (timestamp -> content) of <c>-<ts>.json
    regular,        \* store: country -> content of <c>.json, or NoFile
    manifestFile,   \* store: data-manifest.json, or NoFile
    files_to_delete,\* cleanup_old_versions' slice per country of the last cleanup
    exitStatus,     \* exit status of the last finished run
    failure,        \* what made the last run abort
    observed,       \* what a dashboard reader last read from data-manifest.json
    \* the data pipeline of one country (the loop body of main())
    loop_country,   \* main()'s loop variable: the country being processed
    run_instant,    \* the instant of the run, in hours (UTC)
    silver,         \* the silver table of the country (recent source)
    gold,           \* the GOLD fact table of the country (historical source)
    dpc,            \* position in the loop body
    df_all, df_today_limited, df_last_week, df_mtd_last_month,
    df_mtd_gold, df_today_gold,      \* the six query results
    df_today_full, df_mtd,           \* the slices main() derives
    metrics_today, metrics_last_week, metrics_mtd, metrics_mtd_last_month,
    daily_metrics, ma_7d, ma_15d,
    data,           \* the dict handed to save_json_file
    \* one call of a calculation function on its own arguments
    fpc,            \* "idle", "called" before and "returned" after the call
    arg_df,         \* the DataFrame argument
    arg_country,    \* the country argument
    arg_daily,      \* the daily_metrics argument
    arg_window,     \* the window argument
    returned        \* the value the function returned

storeVars == <<clock, runNo, pc, idx, manifest, versioned, regular,
               manifestFile, files_to_delete, exitStatus, failure, observed>>

dataVars == <<loop_country, run_instant, silver, gold, dpc, df_all, df_today_limited,
              df_last_week, df_mtd_last_month, df_mtd_gold, df_today_gold,
              df_today_full, df_mtd, metrics_today, metrics_last_week,
              metrics_mtd, metrics_mtd_last_month, daily_metrics, ma_7d,
              ma_15d, data>>

callVars == <<fpc, arg_df, arg_country, arg_daily, arg_window, returned>>

vars == <<storeVars, dataVars, callVars>>

Countries == {COUNTRIES[i] : i \in 1..Len(COUNTRIES)}

NoFile == [exists |-> FALSE]
NoFailure == [kind |-> "none"]

\* The content of a file written by run r: every document carries the
\* run's last_updated / timestamp (microsecond clock), so two runs never
\* write equal documents. complete = FALSE is a truncated or partly
\* written document.
Doc(r, complete) == [exists |-> TRUE, run |-> r, complete |-> complete]

EmptyMap == [c \in {} |-> 0]

\* dict / directory update: f with key k set to v
Put(f, k, v) == [x \in (DOMAIN f) \cup {k} |-> IF x = k THEN v ELSE f[x]]

\* directory with the keys in S removed
Without(f, S) == [x \in (DOMAIN f) \ S |-> f[x]]

Max(S) == CHOOSE x \in S : \A y \in S : y <= x

\* str.lower() on the country codes (extract_data.py:544, 576, 684)
Lower(c) == IF c = "PH" THEN "ph" ELSE IF c = "VN" THEN "vn" ELSE c

LowerNames == {Lower(c) : c \in Countries}

MaxTime == keep_versions + MaxAdvance

\* f"{country.lower()}-{timestamp}.json" (extract_data.py:544), kept as the
\* pair of its two variable parts
VersionedFilename(country, timestamp) ==
    [country |-> Lower(country), ts |-> timestamp]

\* the filenames Path(DATA_DIR).glob(f"{country_lower}-*.json") finds whose
\* middle part parses as an int (extract_data.py:581-590), as timestamps
GlobVersioned(country_lower) == DOMAIN versioned[country_lower]

\* FilesToDelete with the sort ascending: the slice drops the newest
FilesToDeleteAscending(timestamps, keep) ==
    {t \in timestamps : Cardinality({u \in timestamps : u < t}) >= keep}

\* FilesToDelete with the slice off by one: versioned_files[keep - 1:]
FilesToDeleteOffByOne(timestamps, keep) ==
    {t \in timestamps : Cardinality({u \in timestamps : u > t}) >= keep - 1}

\* versioned_files.sort(reverse=True); versioned_files[keep:]
\* (extract_data.py:593-596): all but the `keep` largest timestamps
FilesToDelete(timestamps, keep) ==
    {t \in timestamps : Cardinality({u \in timestamps : u > t}) >= keep}

(***************************************************************************)
(* Init: the data directory after n earlier complete runs, one per second, *)
(* n = 0 being the empty directory before the first run. Run 0 is the last *)
(* of them; every such run wrote both countries, the manifest, and pruned  *)
(* (nothing, having at most keep_versions files per country).              *)
(***************************************************************************)
History(n) ==
    /\ clock = IF n = 0 THEN 1 ELSE n
    /\ versioned = [c \in LowerNames |-> [t \in 1..n |-> Doc(t - n, TRUE)]]
    /\ regular = [c \in LowerNames |-> IF n = 0 THEN NoFile ELSE Doc(0, TRUE)]
    /\ manifestFile =
          IF n = 0 THEN NoFile
          ELSE [exists |-> TRUE, run |-> 0, complete |-> TRUE,
                files |-> [c \in LowerNames |-> [country |-> c, ts |-> n]]]

InitStore(histories) ==
    /\ \E n \in histories : History(n)
    /\ runNo = 0
    /\ pc = "exited"
    /\ idx = 1
    /\ manifest = EmptyMap
    /\ files_to_delete = [c \in LowerNames |-> {}]
    /\ exitStatus = 0
    /\ failure = NoFailure
    /\ observed = NoFile

\* no country is being processed: the pipeline variables hold nothing
DataIdle ==
    /\ loop_country = COUNTRIES[1]
    /\ run_instant = 0
    /\ silver = << >>
    /\ gold = << >>
    /\ dpc = "idle"
    /\ df_all = << >> /\ df_today_limited = << >> /\ df_last_week = << >>
    /\ df_mtd_last_month = << >> /\ df_mtd_gold = << >> /\ df_today_gold = << >>
    /\ df_today_full = << >> /\ df_mtd = << >>
    /\ metrics_today = << >> /\ metrics_last_week = << >>
    /\ metrics_mtd = << >> /\ metrics_mtd_last_month = << >>
    /\ daily_metrics = << >> /\ ma_7d = << >> /\ ma_15d = << >>
    /\ data = << >>

\* no calculation function is being called on its own
CallIdle ==
    /\ fpc = "idle"
    /\ arg_df = << >>
    /\ arg_country = COUNTRIES[1]
    /\ arg_daily = << >>
    /\ arg_window = 0
    /\ returned = << >>

\* except Exception as e: logger.error(...); sys.exit(1)
\* (extract_data.py:801-803)
Abort(kind, country) ==
    /\ pc' = "exited"
    /\ exitStatus' = 1
    /\ failure' = [kind |-> kind, country |-> country]
    /\ idx' = 1
    /\ manifest' = EmptyMap
    /\ files_to_delete' = [c \in LowerNames |-> {}]

\* main() starts and connect_to_databricks() succeeds; the date ranges are
\* computed and manifest = {} (extract_data.py:616-630)
StartRun ==
    /\ pc = "exited"
    /\ runNo < MaxRuns
    /\ runNo' = runNo + 1
    /\ pc' = "fetch"
    /\ idx' = 1
    /\ manifest' = EmptyMap
    /\ failure' = NoFailure
    /\ files_to_delete' = [c \in LowerNames |-> {}]
    /\ UNCHANGED <<clock, versioned, regular, manifestFile, exitStatus, observed>>
    /\ UNCHANGED <<dataVars, callVars>>

\* main() starts and all connection attempts fail (extract_data.py:66-70)
ConnectFail ==
    /\ pc = "exited"
    /\ runNo < MaxRuns
    /\ runNo' = runNo + 1
    /\ Abort("connect", "")
    /\ UNCHANGED <<clock, versioned, regular, manifestFile, observed>>
    /\ UNCHANGED <<dataVars, callVars>>

\* the six queries of one country all return (extract_data.py:641-663);
\* both the df_all.empty branch and the normal branch go on to
\* save_json_file
Fetch ==
    /\ pc = "fetch"
    /\ pc' = "save_versioned"
    /\ UNCHANGED <<clock, runNo, idx, manifest, versioned, regular,
                   manifestFile, files_to_delete, exitStatus, failure, observed>>
    /\ UNCHANGED <<dataVars, callVars>>

\* FetchFail with the exception swallowed: the loop body goes on to save
FetchFailSwallowed ==
    /\ pc = "fetch"
    /\ \E q \in 1..NumQueries : failure' = [kind |-> "fetch", country |-> COUNTRIES[idx]]
    /\ pc' = "save_versioned"
    /\ UNCHANGED <<clock, runNo, idx, manifest, versioned, regular,
                   manifestFile, files_to_delete, exitStatus, observed>>
    /\ UNCHANGED <<dataVars, callVars>>

\* query q of the current country raises (extract_data.py:152-154, 249-251)
FetchFail ==
    /\ pc = "fetch"
    /\ \E q \in 1..NumQueries : Abort("fetch", COUNTRIES[idx])
    /\ UNCHANGED <<clock, runNo, versioned, regular, manifestFile, observed>>
    /\ UNCHANGED <<dataVars, callVars>>

\* save_json_file up to the versioned file (extract_data.py:540-553):
\* the clock is read, the versioned file is opened "w" and dumped
SaveVersioned ==
    /\ pc = "save_versioned"
    /\ \E now \in clock..MaxTime :
        /\ clock' = now
        /\ versioned' = [versioned EXCEPT ![Lower(COUNTRIES[idx])] =
                            Put(@, now, Doc(runNo, TRUE))]
    /\ pc' = "save_regular"
    /\ UNCHANGED <<runNo, idx, manifest, regular, manifestFile,
                   files_to_delete, exitStatus, failure, observed>>
    /\ UNCHANGED <<dataVars, callVars>>

\* the versioned write raises (extract_data.py:561-563): either open()
\* fails and nothing changes, or the file is created/truncated and the
\* dump fails part way
SaveVersionedFail ==
    /\ pc = "save_versioned"
    /\ \E now \in clock..MaxTime :
        /\ clock' = now
        /\ \/ versioned' = versioned
           \/ versioned' = [versioned EXCEPT ![Lower(COUNTRIES[idx])] =
                               Put(@, now, Doc(runNo, FALSE))]
    /\ Abort("write", COUNTRIES[idx])
    /\ UNCHANGED <<runNo, regular, manifestFile, observed>>
    /\ UNCHANGED <<dataVars, callVars>>

\* save_json_file returning the versioned filename without writing the
\* regular file
SaveRegularSkipped ==
    /\ pc = "save_regular"
    /\ manifest' = Put(manifest, Lower(COUNTRIES[idx]),
                       VersionedFilename(COUNTRIES[idx], clock))
    /\ IF idx < Len(COUNTRIES)
          THEN idx' = idx + 1 /\ pc' = "fetch"
          ELSE idx' = 1 /\ pc' = "manifest_open"
    /\ UNCHANGED <<clock, runNo, versioned, regular, manifestFile,
                   files_to_delete, exitStatus, failure, observed>>
    /\ UNCHANGED <<dataVars, callVars>>

\* the rest of save_json_file and the manifest entry
\* (extract_data.py:555-560, 683-685, 779-780); the loop moves on
SaveRegular ==
    /\ pc = "save_regular"
    /\ regular' = [regular EXCEPT ![Lower(COUNTRIES[idx])] = Doc(runNo, TRUE)]
    /\ manifest' = Put(manifest, Lower(COUNTRIES[idx]),
                       VersionedFilename(COUNTRIES[idx], clock))
    /\ IF idx < Len(COUNTRIES)
          THEN idx' = idx + 1 /\ pc' = "fetch"
          ELSE idx' = 1 /\ pc' = "manifest_open"
    /\ UNCHANGED <<clock, runNo, versioned, manifestFile, files_to_delete,
                   exitStatus, failure, observed>>
    /\ UNCHANGED <<dataVars, callVars>>

\* the regular write raises (extract_data.py:556-563)
SaveRegularFail ==
    /\ pc = "save_regular"
    /\ \/ regular' = regular
       \/ regular' = [regular EXCEPT ![Lower(COUNTRIES[idx])] = Doc(runNo, FALSE)]
    /\ Abort("write", COUNTRIES[idx])
    /\ UNCHANGED <<clock, runNo, versioned, manifestFile, observed>>
    /\ UNCHANGED <<dataVars, callVars>>

\* open(manifest_file, "w") (extract_data.py:791): data-manifest.json is
\* created or truncated in place
ManifestOpen ==
    /\ pc = "manifest_open"
    /\ manifestFile' = [exists |-> TRUE, run |-> runNo, complete |-> FALSE,
                        files |-> EmptyMap]
    /\ pc' = "manifest_dump"
    /\ idx' = 1
    /\ UNCHANGED <<clock, runNo, manifest, versioned, regular,
                   files_to_delete, exitStatus, failure, observed>>
    /\ UNCHANGED <<dataVars, callVars>>

\* open() of the manifest raises: the old manifest stays
ManifestOpenFail ==
    /\ pc = "manifest_open"
    /\ Abort("manifest", "")
    /\ UNCHANGED <<clock, runNo, versioned, regular, manifestFile, observed>>
    /\ UNCHANGED <<dataVars, callVars>>

\* json.dump(manifest_data, f, indent=2) (extract_data.py:792) streams the
\* document into the open file: the entry of the next country reaches it
ManifestDump ==
    /\ pc = "manifest_dump"
    /\ idx <= Len(COUNTRIES)
    /\ manifestFile' = [manifestFile EXCEPT !.files =
                           Put(@, Lower(COUNTRIES[idx]), manifest[Lower(COUNTRIES[idx])])]
    /\ idx' = idx + 1
    /\ UNCHANGED <<clock, runNo, pc, manifest, versioned, regular,
                   files_to_delete, exitStatus, failure, observed>>
    /\ UNCHANGED <<dataVars, callVars>>

\* the dump or the close of the manifest raises: what was written stays
ManifestDumpFail ==
    /\ pc = "manifest_dump"
    /\ Abort("manifest", "")
    /\ UNCHANGED <<clock, runNo, versioned, regular, manifestFile, observed>>
    /\ UNCHANGED <<dataVars, callVars>>

\* the with-block ends: the document is closed complete
\* (extract_data.py:791-793)
ManifestClose ==
    /\ pc = "manifest_dump"
    /\ idx > Len(COUNTRIES)
    /\ manifestFile' = [manifestFile EXCEPT !.complete = TRUE]
    /\ pc' = "cleanup"
    /\ idx' = 1
    /\ UNCHANGED <<clock, runNo, manifest, versioned, regular,
                   files_to_delete, exitStatus, failure, observed>>
    /\ UNCHANGED <<dataVars, callVars>>

\* one iteration of the loop of cleanup_old_versions
\* (extract_data.py:575-609): the files beyond the newest keep_versions are
\* unlinked; the unlinks in `failed` raise and are only logged
CleanupCountry ==
    /\ pc = "cleanup"
    /\ idx <= Len(COUNTRIES)
    /\ LET country_lower == Lower(COUNTRIES[idx])
           doomed == FilesToDelete(GlobVersioned(country_lower), keep_versions)
       IN  /\ files_to_delete' = [files_to_delete EXCEPT ![country_lower] = doomed]
           /\ \E failed \in SUBSET doomed :
                versioned' = [versioned EXCEPT ![country_lower] =
                                 Without(@, doomed \ failed)]
    /\ idx' = idx + 1
    /\ UNCHANGED <<clock, runNo, pc, manifest, regular, manifestFile,
                   exitStatus, failure, observed>>
    /\ UNCHANGED <<dataVars, callVars>>

\* connection.close() and the normal end of main() (extract_data.py:798-799)
Finish ==
    /\ pc = "cleanup"
    /\ idx > Len(COUNTRIES)
    /\ pc' = "exited"
    /\ exitStatus' = 0
    /\ idx' = 1
    /\ manifest' = EmptyMap
    /\ files_to_delete' = [c \in LowerNames |-> {}]
    /\ UNCHANGED <<clock, runNo, versioned, regular, manifestFile,
                   failure, observed>>
    /\ UNCHANGED <<dataVars, callVars>>

\* a consumer of the data directory reads data-manifest.json; it runs
\* in another process, at any moment
ReaderRead ==
    /\ manifestFile.exists
    /\ observed' = manifestFile
    /\ UNCHANGED <<clock, runNo, pc, idx, manifest, versioned, regular,
                   manifestFile, files_to_delete, exitStatus, failure>>
    /\ UNCHANGED <<dataVars, callVars>>

Next ==
    \/ StartRun
    \/ ConnectFail
    \/ Fetch
    \/ FetchFail
    \/ SaveVersioned
    \/ SaveVersionedFail
    \/ SaveRegular
    \/ SaveRegularFail
    \/ ManifestOpen
    \/ ManifestOpenFail
    \/ ManifestDump
    \/ ManifestDumpFail
    \/ ManifestClose
    \/ CleanupCountry
    \/ Finish

Init == InitStore(0..keep_versions) /\ DataIdle /\ CallIdle

Spec == Init /\ [][Next]_vars

\* the runs together with a concurrent reader of the manifest
NextReader ==
    \/ Next
    \/ ReaderRead

SpecReader == Init /\ [][NextReader]_vars

(***************************************************************************)
(* The data pipeline of one country in main(): time, tables, queries       *)
(***************************************************************************)
\* Instants are whole hours since an epoch, in UTC. Calendar dates are day
\* numbers: the previous month is days 0 .. DaysPrevMonth - 1 and the
\* current month starts at day DaysPrevMonth.

\* config.py:24-26  Asia/Manila and Asia/Hong_Kong are UTC+8,
\* Asia/Ho_Chi_Minh is UTC+7
ManilaOffset == 8
HoChiMinhOffset == 7
HongKongOffset == 8

\* config.py:23-27  TIMEZONES, as UTC offsets in hours
TIMEZONES(zone) ==
    IF zone = "PH" THEN ManilaOffset
    ELSE IF zone = "VN" THEN HoChiMinhOffset
    ELSE HongKongOffset

\* extract_data.py:172  tz_offset = 8 if country == 'PH' else 7
SqlOffsetPH == 8
SqlOffsetOther == 7
tz_offset(country) == IF country = "PH" THEN SqlOffsetPH ELSE SqlOffsetOther

\* config.py:17-20  CURRENCY_RATES, in thousandths of local units per USD
RatePH == 56017
RateVN == 26416000
RateDefault == 1000
CURRENCY_RATES(country) ==
    IF country = "PH" THEN RatePH
    ELSE IF country = "VN" THEN RateVN
    ELSE RateDefault

\* extract_data.py:625  history_start = today - timedelta(days=15)
HistoryDays == 15
\* config.py:40  timedelta(days=7)
WeekDays == 7
\* extract_data.py:743-744  the two moving-average windows
ShortWindow == 7
LongWindow == 15

\* length of the previous month of the model's calendar
DaysPrevMonth == 30

\* datetime.astimezone(tz).date() and .hour for an instant
DateIn(instant, offset) == (instant + offset) \div 24
HourIn(instant, offset) == (instant + offset) % 24

\* pd.to_datetime(..., utc=True).dt.date (extract_data.py:406, 688, 696)
\* and .dt.hour (extract_data.py:752)
UtcDate(instant) == DateIn(instant, 0)
UtcHour(instant) == HourIn(instant, 0)

\* config.py:33-36  get_today(): the Hong Kong date of now
get_today(now) == DateIn(now, TIMEZONES("HK"))

\* config.py:38-40
get_same_day_last_week(now) == get_today(now) - WeekDays

\* config.py:42-45  first day of the current month
get_mtd_start(now) ==
    IF get_today(now) >= DaysPrevMonth THEN DaysPrevMonth ELSE 0

\* config.py:47-78  (first day of last month, same day of month in last
\* month or its last day when it has no such day)
get_last_month_mtd_range(now) ==
    LET day_of_month == get_today(now) - get_mtd_start(now) + 1
    IN  <<0, IF day_of_month <= DaysPrevMonth THEN day_of_month - 1
             ELSE DaysPrevMonth - 1>>

\* A DataFrame is the sequence of its rows; pd.DataFrame() is << >>.

\* query_orders (extract_data.py:157-251) on the silver table: the rows
\* whose country-local date (createAt + tz_offset) is in [start, end] and,
\* with an hour limit, whose country-local hour is <= hour_limit. The
\* table holds the rows that pass the vendor, status and channel
\* predicates, one per orderNumber (QUALIFY ROW_NUMBER() = 1).
NoLimit == 99
query_orders(table, country, start_date, end_date, hour_limit) ==
    LET Keep(row) ==
            /\ DateIn(row.placement_date, tz_offset(country)) >= start_date
            /\ DateIn(row.placement_date, tz_offset(country)) <= end_date
            /\ (hour_limit # NoLimit =>
                    HourIn(row.placement_date, tz_offset(country)) <= hour_limit)
    IN  SelectSeq(table, Keep)

\* query_gold_orders (extract_data.py:75-154) on the GOLD table:
\* TO_DATE(placement_date) in [start, end], placement_date being UTC
query_gold_orders(table, start_date, end_date) ==
    LET Keep(row) ==
            /\ UtcDate(row.placement_date) >= start_date
            /\ UtcDate(row.placement_date) <= end_date
    IN  SelectSeq(table, Keep)

\* DataFrame.drop_duplicates(subset=['order_number'], keep='last')
DropDuplicatesKeepLast(df) ==
    LET Keep(i) == \A j \in (i + 1)..Len(df) : df[j].order_number # df[i].order_number
        F[i \in 0..Len(df)] ==
            IF i = 0 THEN << >>
            ELSE IF Keep(i) THEN Append(F[i - 1], df[i]) ELSE F[i - 1]
    IN  F[Len(df)]

\* drop_duplicates left out: the concatenation as it is
DropDuplicatesNone(df) == df

\* DataFrame.drop_duplicates(subset=['order_number'], keep='first')
\* (extract_data.py:702): a row stays when no earlier row has its
\* order_number
DropDuplicates(df) ==
    LET Keep(i) == \A j \in 1..(i - 1) : df[j].order_number # df[i].order_number
        F[i \in 0..Len(df)] ==
            IF i = 0 THEN << >>
            ELSE IF Keep(i) THEN Append(F[i - 1], df[i]) ELSE F[i - 1]
    IN  F[Len(df)]

\* df_all[df_all["date"] == today] (extract_data.py:688-690): the rows of
\* df_all whose UTC date equals today
TodayFull(all, today) ==
    LET Keep(row) == UtcDate(row.placement_date) = today
    IN  SelectSeq(all, Keep)

\* the month-to-date merge (extract_data.py:694-706): GOLD rows first,
\* then today's silver rows, first row per order_number kept; without
\* GOLD rows the silver rows dated from mtd_start on
MergeMTD(mtd_gold, all, today, mtd_start) ==
    IF mtd_gold # << >>
    THEN DropDuplicates(mtd_gold \o TodayFull(all, today))
    ELSE LET Keep(row) == UtcDate(row.placement_date) >= mtd_start
         IN  SelectSeq(all, Keep)

(***************************************************************************)
(* Metrics. Amounts of money and ratios are kept in hundredths, the two    *)
(* decimals of round(x, 2); percentages in tenths, the one decimal of      *)
(* round(x, 1); counts are plain integers.                                 *)
(***************************************************************************)
\* round() of the quotient n / d of two naturals to the nearest integer,
\* ties to even as Python 3 rounds
RoundDiv(n, d) ==
    LET q == n \div d
        r == n % d
    IN  IF 2 * r < d THEN q
        ELSE IF 2 * r > d THEN q + 1
        ELSE q + (q % 2)

\* Series.nunique() of the three identifier columns
NUniqueOrders(df) == Cardinality({df[i].order_number : i \in DOMAIN df})
NUniqueBuyers(df) == Cardinality({df[i].account_id : i \in DOMAIN df})
NUniqueVendors(df) == Cardinality({df[i].vendor_account_id : i \in DOMAIN df})

\* pd.to_numeric(df["order_gmv"], errors='coerce') followed by .sum()
\* (extract_data.py:280-282): values that are not numbers become NaN,
\* which sum() skips
SumGmv(df) ==
    LET F[i \in 0..Len(df)] ==
            IF i = 0 THEN 0
            ELSE F[i - 1] + (IF df[i].order_gmv.numeric
                             THEN df[i].order_gmv.value ELSE 0)
    IN  F[Len(df)]

MetricKeys == {"total_gmv", "total_gmv_usd", "orders", "unique_buyers",
               "unique_vendors", "aov", "aov_usd", "frequency",
               "gmv_per_poc", "gmv_per_poc_usd"}

\* calculate_metrics (extract_data.py:254-309)
calculate_metrics(df, country) ==
    IF df = << >>
    THEN [k \in MetricKeys |-> 0]
    ELSE
      LET total_gmv == SumGmv(df)
          orders == NUniqueOrders(df)
          unique_buyers == NUniqueBuyers(df)
          unique_vendors == NUniqueVendors(df)
          usd_rate == CURRENCY_RATES(country)
      IN  [ total_gmv |-> 100 * total_gmv,
            total_gmv_usd |-> RoundDiv(100 * 1000 * total_gmv, usd_rate),
            orders |-> orders,
            unique_buyers |-> unique_buyers,
            unique_vendors |-> unique_vendors,
            aov |-> IF orders > 0 THEN RoundDiv(100 * total_gmv, orders) ELSE 0,
            aov_usd |-> IF orders > 0
                        THEN RoundDiv(100 * 1000 * total_gmv, orders * usd_rate)
                        ELSE 0,
            frequency |-> IF unique_buyers > 0
                          THEN RoundDiv(100 * orders, unique_buyers) ELSE 0,
            gmv_per_poc |-> IF unique_vendors > 0
                            THEN RoundDiv(100 * total_gmv, unique_vendors) ELSE 0,
            gmv_per_poc_usd |-> IF unique_vendors > 0
                                THEN RoundDiv(100 * 1000 * total_gmv,
                                              unique_vendors * usd_rate)
                                ELSE 0 ]

ChannelKeys == {"gmv_usd", "orders", "buyers", "gmv_percent",
                "orders_percent", "buyers_percent"}

\* calculate_channel_metrics (extract_data.py:312-385); every row of the
\* model has a channel column
calculate_channel_metrics(df, country) ==
    IF df = << >>
    THEN [customer |-> [k \in ChannelKeys |-> 0],
          cx_tlp |-> [k \in ChannelKeys |-> 0]]
    ELSE
      LET usd_rate == CURRENCY_RATES(country)
          IsCustomer(row) == row.channel # "CX_TLP"
          IsCxTlp(row) == row.channel = "CX_TLP"
          total_gmv == SumGmv(df)
          total_orders == NUniqueOrders(df)
          total_buyers == NUniqueBuyers(df)
          Group(part) ==
              LET gmv == SumGmv(part)
                  orders == NUniqueOrders(part)
                  buyers == NUniqueBuyers(part)
              IN  [ gmv_usd |-> RoundDiv(100 * 1000 * gmv, usd_rate),
                    orders |-> orders,
                    buyers |-> buyers,
                    gmv_percent |-> IF total_gmv > 0
                                    THEN RoundDiv(1000 * gmv, total_gmv) ELSE 0,
                    orders_percent |-> IF total_orders > 0
                                       THEN RoundDiv(1000 * orders, total_orders)
                                       ELSE 0,
                    buyers_percent |-> IF total_buyers > 0
                                       THEN RoundDiv(1000 * buyers, total_buyers)
                                       ELSE 0 ]
      IN  [customer |-> Group(SelectSeq(df, IsCustomer)),
           cx_tlp |-> Group(SelectSeq(df, IsCxTlp))]

\* the dates df.groupby("date") finds, ascending
SortedDates(dates) ==
    LET F[S \in SUBSET dates] ==
            IF S = {} THEN << >>
            ELSE LET m == CHOOSE x \in S : \A y \in S : x <= y
                 IN  <<m>> \o F[S \ {m}]
    IN  F[dates]

\* calculate_daily_metrics (extract_data.py:388-417): one entry per UTC
\* date of placement_date, ascending by date
calculate_daily_metrics(df, country) ==
    IF df = << >>
    THEN << >>
    ELSE
      LET dates == SortedDates({UtcDate(df[i].placement_date) : i \in DOMAIN df})
          Entry(date) ==
              LET InGroup(row) == UtcDate(row.placement_date) = date
              IN  Put(calculate_metrics(SelectSeq(df, InGroup), country),
                      "date", date)
      IN  [i \in DOMAIN dates |-> Entry(dates[i])]

\* the sum of one key over a list of dicts
SumKey(entries, key) ==
    LET F[i \in 0..Len(entries)] ==
            IF i = 0 THEN 0 ELSE F[i - 1] + entries[i][key]
    IN  F[Len(entries)]

MovingAverageKeys == {"gmv", "orders", "aov", "unique_buyers",
                      "frequency", "gmv_per_poc"}

\* the moving average without the clamp of the window to the length of
\* the series: the sum of the available entries divided by the window
MovingAverageUnclamped(series, window) ==
    IF window = 0
    THEN [k \in MovingAverageKeys |-> 0]
    ELSE
      LET n == IF Len(series) < window THEN Len(series) ELSE window
          recent_data == SubSeq(series, Len(series) - n + 1, Len(series))
      IN  [ gmv |-> RoundDiv(SumKey(recent_data, "total_gmv_usd"), window),
            orders |-> RoundDiv(100 * SumKey(recent_data, "orders"), window),
            aov |-> RoundDiv(SumKey(recent_data, "aov_usd"), window),
            unique_buyers |->
                RoundDiv(100 * SumKey(recent_data, "unique_buyers"), window),
            frequency |-> RoundDiv(SumKey(recent_data, "frequency"), window),
            gmv_per_poc |->
                RoundDiv(SumKey(recent_data, "gmv_per_poc_usd"), window) ]

\* calculate_moving_average (extract_data.py:420-463); every value is a
\* mean rounded to two decimals, so kept in hundredths
calculate_moving_average(series, window) ==
    LET w == IF Len(series) < window THEN Len(series) ELSE window
    IN  IF w = 0
        THEN [k \in MovingAverageKeys |-> 0]
        ELSE
          LET recent_data == SubSeq(series,
                                    Len(series) - w + 1, Len(series))
          IN  [ gmv |-> RoundDiv(SumKey(recent_data, "total_gmv_usd"), w),
                orders |-> RoundDiv(100 * SumKey(recent_data, "orders"), w),
                aov |-> RoundDiv(SumKey(recent_data, "aov_usd"), w),
                unique_buyers |-> RoundDiv(100 * SumKey(recent_data, "unique_buyers"), w),
                frequency |-> RoundDiv(SumKey(recent_data, "frequency"), w),
                gmv_per_poc |-> RoundDiv(SumKey(recent_data, "gmv_per_poc_usd"), w) ]

\* the replacement of today's entry of the daily series by the
\* hour-limited metrics (extract_data.py:719-740)
ReplaceToday(series, hour_limited, today) ==
    LET hits == {i \in DOMAIN series : series[i]["date"] = today}
    IN  IF hits = {} THEN series
        ELSE LET first == CHOOSE i \in hits : \A j \in hits : i <= j
             IN  [series EXCEPT ![first] = Put(hour_limited, "date", today)]

\* generate_json_output (extract_data.py:466-529); a channel breakdown is
\* added when it is given, NoChannels standing for None
NoChannels == [given |-> FALSE]
generate_json_output(now, m_today, m_last_week, m_mtd, m_mtd_last_month, series, avg_7d, avg_15d, channels) ==
    LET today == get_today(now)
        range == get_last_month_mtd_range(now)
        output ==
          [ last_updated |-> now,
            today |-> Put(m_today, "date", today),
            same_day_last_week |->
                Put(m_last_week, "date", get_same_day_last_week(now)),
            mtd |-> Put(Put(m_mtd, "start_date", get_mtd_start(now)),
                        "end_date", today),
            mtd_last_month |->
                Put(Put(m_mtd_last_month, "start_date", range[1]),
                    "end_date", range[2]),
            daily_history |-> series,
            moving_averages |-> [ma_7d |-> avg_7d, ma_15d |-> avg_15d] ]
    IN  IF channels.given
        THEN Put(Put(Put(Put(output,
                 "channel_breakdown_today", channels.today),
                 "channel_breakdown_last_week", channels.last_week),
                 "channel_breakdown_mtd", channels.mtd),
                 "channel_breakdown_mtd_last_month", channels.mtd_last_month)
        ELSE output

(***************************************************************************)
(* The loop body of main() for one country, on bounded tables              *)
(***************************************************************************)
\* order numbers in the tables
NumOrders == 2
\* days of the current month that today ranges over
MaxDayOfMonth == 3

OrderNumbers == 1..NumOrders

\* the instants at which the model's orders are placed, around
\* second = the second day of the current month at 00:00 UTC
SecondDay == (DaysPrevMonth + 1) * 24
SilverInstants ==
    { SecondDay - 7,        \* local 01:00 (PH), 00:00 (VN) of the second day
      SecondDay + 1,        \* 01:00 UTC of the second day
      SecondDay - 21,       \* 03:00 UTC of the first day
      SecondDay - 7 * 24 }  \* a week before the second day
GoldInstants ==
    { SecondDay - 21,       \* 03:00 UTC of the first day
      SecondDay - 3,        \* 21:00 UTC of the first day
      SecondDay + 1 }       \* 01:00 UTC of the second day

\* one row of a query result, with the columns both queries select
Row(order_number, gmv, instant) ==
    [ order_number |-> order_number,
      order_gmv |-> [numeric |-> TRUE, value |-> gmv],
      account_id |-> order_number,
      vendor_account_id |-> 1,
      channel |-> IF order_number % 2 = 0 THEN "CX_TLP" ELSE "B2B_APP",
      placement_date |-> instant ]

\* the rows of a table in which order number k is placed at place[k], or
\* is absent when place[k] = 0, in order of order number
TableOf(place, base) ==
    LET F[k \in 0..NumOrders] ==
            IF k = 0 THEN << >>
            ELSE IF place[k] = 0 THEN F[k - 1]
            ELSE Append(F[k - 1], Row(k, base + 10 * k, place[k]))
    IN  F[NumOrders]

SilverTables == {TableOf(p, 0) : p \in [OrderNumbers -> SilverInstants \cup {0}]}
GoldTables == {TableOf(p, 5) : p \in [OrderNumbers -> GoldInstants \cup {0}]}

\* the instants of the runs: Hong Kong 00:00 and 10:00 of the first
\* MaxDayOfMonth days of the current month
RunInstants ==
    {(DaysPrevMonth + d) * 24 + h - HongKongOffset :
        d \in 0..(MaxDayOfMonth - 1), h \in {0, 10}}

\* the artifact store is not touched by the loop body up to save_json_file
StoreIdle == InitStore({0})

InitData ==
    /\ StoreIdle
    /\ CallIdle
    /\ loop_country \in Countries
    /\ run_instant \in RunInstants
    /\ silver \in SilverTables
    /\ gold \in GoldTables
    \* the tables hold orders placed up to the instant of the run
    /\ \A i \in DOMAIN silver : silver[i].placement_date <= run_instant
    /\ \A i \in DOMAIN gold : gold[i].placement_date <= run_instant
    /\ dpc = "start"
    /\ df_all = << >> /\ df_today_limited = << >> /\ df_last_week = << >>
    /\ df_mtd_last_month = << >> /\ df_mtd_gold = << >> /\ df_today_gold = << >>
    /\ df_today_full = << >> /\ df_mtd = << >>
    /\ metrics_today = << >> /\ metrics_last_week = << >>
    /\ metrics_mtd = << >> /\ metrics_mtd_last_month = << >>
    /\ daily_metrics = << >> /\ ma_7d = << >> /\ ma_15d = << >>
    /\ data = << >>

\* main()'s date ranges (extract_data.py:621-625, 654) and the hour limit
\* of the country (extract_data.py:634-636)
today == get_today(run_instant)
same_day_last_week == get_same_day_last_week(run_instant)
mtd_start == get_mtd_start(run_instant)
last_month_mtd == get_last_month_mtd_range(run_instant)
history_start == today - HistoryDays
yesterday == today - 1
current_hour == HourIn(run_instant, TIMEZONES(loop_country))

\* the six queries (extract_data.py:641-663)
QueryAll ==
    /\ dpc = "start"
    /\ df_all' = query_orders(silver, loop_country, history_start, today, NoLimit)
    /\ df_today_limited' = query_orders(silver, loop_country, today, today, current_hour)
    /\ df_last_week' = query_orders(silver, loop_country, same_day_last_week,
                                    same_day_last_week, current_hour)
    /\ df_mtd_last_month' = query_orders(silver, loop_country, last_month_mtd[1],
                                         last_month_mtd[2], NoLimit)
    /\ df_mtd_gold' = IF mtd_start < today
                      THEN query_gold_orders(gold, mtd_start, yesterday)
                      ELSE << >>
    /\ df_today_gold' = query_gold_orders(gold, today, today)
    /\ dpc' = "fetched"
    /\ UNCHANGED <<loop_country, run_instant, silver, gold, df_today_full, df_mtd,
                   metrics_today, metrics_last_week, metrics_mtd,
                   metrics_mtd_last_month, daily_metrics, ma_7d, ma_15d, data>>
    /\ UNCHANGED <<storeVars, callVars>>

\* the df_all.empty branch (extract_data.py:669-685), up to the call of
\* save_json_file
EmptyOutput ==
    /\ dpc = "fetched"
    /\ df_all = << >>
    /\ LET empty_metrics == calculate_metrics(<< >>, loop_country)
       IN  data' = generate_json_output(run_instant, empty_metrics, empty_metrics,
                                        empty_metrics, empty_metrics, << >>,
                                        empty_metrics, empty_metrics, NoChannels)
    /\ dpc' = "output"
    /\ UNCHANGED <<loop_country, run_instant, silver, gold, df_all, df_today_limited,
                   df_last_week, df_mtd_last_month, df_mtd_gold, df_today_gold,
                   df_today_full, df_mtd, metrics_today, metrics_last_week,
                   metrics_mtd, metrics_mtd_last_month, daily_metrics, ma_7d, ma_15d>>
    /\ UNCHANGED <<storeVars, callVars>>

\* df_today_full and the month-to-date merge (extract_data.py:687-706)
Merge ==
    /\ dpc = "fetched"
    /\ df_all # << >>
    /\ df_today_full' = TodayFull(df_all, today)
    /\ df_mtd' = MergeMTD(df_mtd_gold, df_all, today, mtd_start)
    /\ dpc' = "merged"
    /\ UNCHANGED <<loop_country, run_instant, silver, gold, df_all, df_today_limited,
                   df_last_week, df_mtd_last_month, df_mtd_gold, df_today_gold,
                   metrics_today, metrics_last_week, metrics_mtd,
                   metrics_mtd_last_month, daily_metrics, ma_7d, ma_15d, data>>
    /\ UNCHANGED <<storeVars, callVars>>

\* the four MetricSets (extract_data.py:708-712)
Metrics ==
    /\ dpc = "merged"
    /\ metrics_today' = calculate_metrics(df_today_limited, loop_country)
    /\ metrics_last_week' = calculate_metrics(df_last_week, loop_country)
    /\ metrics_mtd' = calculate_metrics(df_mtd, loop_country)
    /\ metrics_mtd_last_month' = calculate_metrics(df_mtd_last_month, loop_country)
    /\ dpc' = "metrics"
    /\ UNCHANGED <<loop_country, run_instant, silver, gold, df_all, df_today_limited,
                   df_last_week, df_mtd_last_month, df_mtd_gold, df_today_gold,
                   df_today_full, df_mtd, daily_metrics, ma_7d, ma_15d, data>>
    /\ UNCHANGED <<storeVars, callVars>>

\* the daily series with today's entry replaced, and the moving averages
\* (extract_data.py:716-744)
Trend ==
    /\ dpc = "metrics"
    /\ LET series == ReplaceToday(calculate_daily_metrics(df_all, loop_country),
                                  metrics_today, today)
       IN  /\ daily_metrics' = series
           /\ ma_7d' = calculate_moving_average(series, ShortWindow)
           /\ ma_15d' = calculate_moving_average(series, LongWindow)
    /\ dpc' = "trend"
    /\ UNCHANGED <<loop_country, run_instant, silver, gold, df_all, df_today_limited,
                   df_last_week, df_mtd_last_month, df_mtd_gold, df_today_gold,
                   df_today_full, df_mtd, metrics_today, metrics_last_week,
                   metrics_mtd, metrics_mtd_last_month, data>>
    /\ UNCHANGED <<storeVars, callVars>>

\* today's GOLD rows up to the current hour (extract_data.py:749-753)
TodayGoldLimited(today_gold, hour) ==
    LET Keep(row) == UtcHour(row.placement_date) <= hour
    IN  SelectSeq(today_gold, Keep)

\* the channel breakdowns and the output dict (extract_data.py:746-778),
\* up to the call of save_json_file
Output ==
    /\ dpc = "trend"
    /\ LET channel_metrics_today ==
               IF df_today_gold # << >>
               THEN calculate_channel_metrics(
                        TodayGoldLimited(df_today_gold, current_hour), loop_country)
               ELSE calculate_channel_metrics(df_today_limited, loop_country)
           channels ==
               [ given |-> TRUE,
                 today |-> channel_metrics_today,
                 last_week |-> calculate_channel_metrics(df_last_week, loop_country),
                 mtd |-> calculate_channel_metrics(df_mtd, loop_country),
                 mtd_last_month |->
                     calculate_channel_metrics(df_mtd_last_month, loop_country) ]
       IN  data' = generate_json_output(run_instant, metrics_today, metrics_last_week,
                                        metrics_mtd, metrics_mtd_last_month,
                                        daily_metrics, ma_7d, ma_15d, channels)
    /\ dpc' = "output"
    /\ UNCHANGED <<loop_country, run_instant, silver, gold, df_all, df_today_limited,
                   df_last_week, df_mtd_last_month, df_mtd_gold, df_today_gold,
                   df_today_full, df_mtd, metrics_today, metrics_last_week,
                   metrics_mtd, metrics_mtd_last_month, daily_metrics, ma_7d, ma_15d>>
    /\ UNCHANGED <<storeVars, callVars>>

NextData ==
    \/ QueryAll
    \/ EmptyOutput
    \/ Merge
    \/ Metrics
    \/ Trend
    \/ Output

SpecData == InitData /\ [][NextData]_vars

(***************************************************************************)
(* The loop body of main() on runs over the days of a month                *)
(***************************************************************************)
\* days of the current month that today ranges over
MaxMonthDay == 17

\* 02:00 UTC of day d of the current month: the same calendar date in UTC,
\* Manila, Ho Chi Minh and Hong Kong
MorningOf(d) == (DaysPrevMonth + d - 1) * 24 + 2

\* the days of the month on which the model's orders are placed
PlacementDays == {1, 2, MaxMonthDay - 1, MaxMonthDay}

MonthSilverTables ==
    {TableOf(p, 0) :
        p \in [OrderNumbers -> {MorningOf(d) : d \in PlacementDays} \cup {0}]}

\* the GOLD table: empty, or holding order 1 placed on the first day
MonthGoldTables ==
    {<< >>, <<Row(1, 15, MorningOf(1))>>}

\* the instants of the runs: Hong Kong 12:00 of each day
MonthRunInstants ==
    {(DaysPrevMonth + d - 1) * 24 + 12 - HongKongOffset : d \in 1..MaxMonthDay}

InitMonth ==
    /\ StoreIdle
    /\ CallIdle
    /\ loop_country \in Countries
    /\ run_instant \in MonthRunInstants
    /\ silver \in MonthSilverTables
    /\ gold \in MonthGoldTables
    /\ \A i \in DOMAIN silver : silver[i].placement_date <= run_instant
    /\ \A i \in DOMAIN gold : gold[i].placement_date <= run_instant
    /\ dpc = "start"
    /\ df_all = << >> /\ df_today_limited = << >> /\ df_last_week = << >>
    /\ df_mtd_last_month = << >> /\ df_mtd_gold = << >> /\ df_today_gold = << >>
    /\ df_today_full = << >> /\ df_mtd = << >>
    /\ metrics_today = << >> /\ metrics_last_week = << >>
    /\ metrics_mtd = << >> /\ metrics_mtd_last_month = << >>
    /\ daily_metrics = << >> /\ ma_7d = << >> /\ ma_15d = << >>
    /\ data = << >>

SpecMonth == InitMonth /\ [][NextData]_vars

(***************************************************************************)
(* calculate_metrics and calculate_channel_metrics called on bounded       *)
(* record sets                                                             *)
(***************************************************************************)
\* rows of a record set
MaxRecords == 3

\* the values of the order_gmv column: two numbers and a string that
\* pd.to_numeric cannot coerce
GmvValues ==
    { [numeric |-> TRUE, value |-> 100],
      [numeric |-> TRUE, value |-> 200],
      [numeric |-> FALSE, value |-> 0] }

\* the rows with order number k: one vendor, two buyers, a customer
\* channel or the growth channel
RecordsOf(k) ==
    [ order_number : {k},
      order_gmv : GmvValues,
      account_id : {1, 2},
      vendor_account_id : {1},
      channel : {"B2B_APP", "CX_TLP"},
      placement_date : {0} ]

\* the record sets of n rows, with order numbers 1 .. n
RecordSets(n) ==
    {df \in [1..n -> UNION {RecordsOf(k) : k \in 1..n}] :
        \A k \in 1..n : df[k].order_number = k}

NotReturned == [function |-> "none"]

InitMetrics ==
    /\ StoreIdle
    /\ DataIdle
    /\ fpc = "called"
    /\ \E n \in 0..MaxRecords : arg_df \in RecordSets(n)
    /\ arg_country \in Countries
    /\ arg_daily = << >>
    /\ arg_window = 0
    /\ returned = NotReturned

\* metrics = calculate_metrics(df, country)
CallMetrics ==
    /\ fpc = "called"
    /\ returned' = [function |-> "calculate_metrics",
                    value |-> calculate_metrics(arg_df, arg_country)]
    /\ fpc' = "returned"
    /\ UNCHANGED <<arg_df, arg_country, arg_daily, arg_window>>
    /\ UNCHANGED <<storeVars, dataVars>>

\* channel_metrics = calculate_channel_metrics(df, country)
CallChannelMetrics ==
    /\ fpc = "called"
    /\ returned' = [function |-> "calculate_channel_metrics",
                    value |-> calculate_channel_metrics(arg_df, arg_country)]
    /\ fpc' = "returned"
    /\ UNCHANGED <<arg_df, arg_country, arg_daily, arg_window>>
    /\ UNCHANGED <<storeVars, dataVars>>

NextMetrics ==
    \/ CallMetrics
    \/ CallChannelMetrics

SpecMetrics == InitMetrics /\ [][NextMetrics]_vars

(***************************************************************************)
(* calculate_moving_average called on bounded series and windows           *)
(***************************************************************************)
\* entries of a series
MaxSeries == 3
\* orders of one day of a series
MaxDayOrders == 2
\* windows tried besides the two of main()
MaxWindow == 4

\* the orders of a day with k orders
DayRecords(k) == [i \in 1..k |-> Row(i, 100 * i, 0)]

\* the entry of calculate_daily_metrics for a day with k orders, or
\* today's entry replaced by the metrics of an empty hour-limited slice
\* when k = 0
DailyEntry(date, k) == Put(calculate_metrics(DayRecords(k), "PH"), "date", date)

\* the series of n entries, dated 1 .. n
DailySeries(n) ==
    {[i \in 1..n |-> DailyEntry(i, orders[i])] :
        orders \in [1..n -> 0..MaxDayOrders]}

InitMovingAverage ==
    /\ StoreIdle
    /\ DataIdle
    /\ fpc = "called"
    /\ arg_df = << >>
    /\ arg_country = COUNTRIES[1]
    /\ \E n \in 0..MaxSeries : arg_daily \in DailySeries(n)
    /\ arg_window \in (1..MaxWindow) \cup {ShortWindow, LongWindow}
    /\ returned = NotReturned

\* ma = calculate_moving_average(daily_metrics, window)
CallMovingAverage ==
    /\ fpc = "called"
    /\ returned' = [function |-> "calculate_moving_average",
                    value |-> calculate_moving_average(arg_daily, arg_window)]
    /\ fpc' = "returned"
    /\ UNCHANGED <<arg_df, arg_country, arg_daily, arg_window>>
    /\ UNCHANGED <<storeVars, dataVars>>

NextMovingAverage == CallMovingAverage

SpecMovingAverage == InitMovingAverage /\ [][NextMovingAverage]_vars

(***************************************************************************)
(* Claims about the artifact store                                         *)
(***************************************************************************)
CountryIndex(country) == CHOOSE i \in 1..Len(COUNTRIES) : COUNTRIES[i] = country

\* run r wrote (wholly or partly) a versioned file of country_lower
WroteVersioned(r, country_lower) ==
    \E t \in DOMAIN versioned[country_lower] : versioned[country_lower][t].run = r

\* run r wrote (wholly or partly) the regular file of country_lower
WroteRegular(r, country_lower) ==
    regular[country_lower].exists /\ regular[country_lower].run = r

\* C1: every filename listed in the files map of data-manifest.json (whole
\* or partly written) names a versioned artifact that exists in the store,
\* whatever runs completed or aborted and whatever cleanup deleted.
C1_ManifestNamesExisting ==
    manifestFile.exists =>
        \A c \in DOMAIN manifestFile.files :
            LET name == manifestFile.files[c]
            IN  /\ name.country \in LowerNames
                /\ name.ts \in DOMAIN versioned[name.country]

\* C1 witness: cleanup has just deleted old versions of a country whose
\* entry the complete manifest of this run lists
C1_Witness ==
    /\ pc = "cleanup"
    /\ manifestFile.exists /\ manifestFile.complete /\ manifestFile.run = runNo
    /\ \E c \in LowerNames :
        /\ files_to_delete[c] # {}
        /\ files_to_delete[c] \cap DOMAIN versioned[c] = {}
        /\ c \in DOMAIN manifestFile.files

\* C2 (as stated): when the write of one country's snapshot fails, the
\* countries after it are still written in the same run, and the manifest
\* is not rewritten with an entry for the failed country.
C2_WriteFailureSparesOthers ==
    (pc = "exited" /\ failure.kind = "write") =>
        /\ \A i \in 1..Len(COUNTRIES) :
              i > CountryIndex(failure.country) =>
                  /\ WroteVersioned(runNo, Lower(COUNTRIES[i]))
                  /\ WroteRegular(runNo, Lower(COUNTRIES[i]))
        /\ ~(manifestFile.exists /\ manifestFile.run = runNo
             /\ Lower(failure.country) \in DOMAIN manifestFile.files)

\* C3: a run in which a fetch failed for country c ended with a non-zero
\* exit status, and wrote no versioned artifact and no stable artifact for
\* c or any country after c in COUNTRIES, and no manifest.
C3_FetchFailureWritesNothing ==
    (pc = "exited" /\ failure.kind = "fetch") =>
        /\ exitStatus # 0
        /\ \A i \in 1..Len(COUNTRIES) :
              i >= CountryIndex(failure.country) =>
                  /\ ~WroteVersioned(runNo, Lower(COUNTRIES[i]))
                  /\ ~WroteRegular(runNo, Lower(COUNTRIES[i]))
        /\ ~(manifestFile.exists /\ manifestFile.run = runNo)

\* C3 witness: a run aborted on a fetch of the second country after the
\* first country was written
C3_Witness ==
    /\ pc = "exited"
    /\ failure.kind = "fetch"
    /\ failure.country = COUNTRIES[2]
    /\ WroteVersioned(runNo, Lower(COUNTRIES[1]))
    /\ WroteRegular(runNo, Lower(COUNTRIES[1]))

\* C4 (as stated): whatever a reader reads from data-manifest.json while
\* runs go on is a complete document, never an empty or partly written one.
C4_ReaderSeesCompleteManifest ==
    observed.exists => observed.complete

Minimum(a, b) == IF a < b THEN a ELSE b
Maximum(a, b) == IF a > b THEN a ELSE b

\* C5: a cleanup of a country in which no unlink fails removes exactly the
\* max(n - K, 0) versioned artifacts with the smallest timestamps of the n
\* there were, leaves the min(n, K) with the largest, and the manifest
\* entry of the country names the newest one left.
C5_RetentionKeepsNewest ==
    [][ (pc = "cleanup" /\ idx' = idx + 1) =>
          LET c == Lower(COUNTRIES[idx])
              before == DOMAIN versioned[c]
              after == DOMAIN versioned'[c]
              deleted == before \ after
              n == Cardinality(before)
          IN  (files_to_delete'[c] \cap after = {}) =>
                /\ after \subseteq before
                /\ Cardinality(deleted) = Maximum(n - keep_versions, 0)
                /\ Cardinality(after) = Minimum(n, keep_versions)
                /\ \A d \in deleted : \A r \in after : d < r
                /\ after # {}
                /\ manifestFile.files[c] = [country |-> c, ts |-> Max(after)]
      ]_vars

\* C5 witness: a cleanup without failed unlinks has deleted two or more
\* old versions of a country and left keep_versions
C5_Witness ==
    /\ pc = "cleanup"
    /\ \E c \in LowerNames :
        /\ Cardinality(files_to_delete[c]) >= 2
        /\ files_to_delete[c] \cap DOMAIN versioned[c] = {}
        /\ Cardinality(DOMAIN versioned[c]) = keep_versions

\* C6 (as stated): a versioned artifact that exists keeps its content as
\* long as it exists: no later write replaces that content.
C6_VersionedNeverOverwritten ==
    [][ \A c \in LowerNames : \A t \in DOMAIN versioned[c] :
            t \in DOMAIN versioned'[c] => versioned'[c][t] = versioned[c][t]
      ]_vars

(***************************************************************************)
(* Claims about the month-to-date merge and the output document            *)
(***************************************************************************)
\* the loop body is past the merge (or took the df_all.empty branch)
PastMerge == dpc \in {"merged", "metrics", "trend", "output"}

OrderNumbersOf(df) == {df[i].order_number : i \in DOMAIN df}

RowsOf(df, order_number) == {i \in DOMAIN df : df[i].order_number = order_number}

\* C7: when an order_number occurs in the historical slice df_mtd_gold and
\* in today's slice df_today_full with different attributes, the merged
\* month-to-date set holds exactly one record of it, the historical one.
C7_HistoricalWins ==
    PastMerge =>
        \A i \in DOMAIN df_mtd_gold : \A j \in DOMAIN df_today_full :
            (/\ df_mtd_gold[i].order_number = df_today_full[j].order_number
             /\ df_mtd_gold[i] # df_today_full[j]) =>
                /\ RowsOf(df_mtd, df_mtd_gold[i].order_number) # {}
                /\ \A k \in RowsOf(df_mtd, df_mtd_gold[i].order_number) :
                       df_mtd[k] = df_mtd_gold[i]

\* C7 witness: the merge has run on slices that share an order_number with
\* different gross values
C7_Witness ==
    /\ dpc = "merged"
    /\ \E i \in DOMAIN df_mtd_gold : \E j \in DOMAIN df_today_full :
        /\ df_mtd_gold[i].order_number = df_today_full[j].order_number
        /\ df_mtd_gold[i].order_gmv # df_today_full[j].order_gmv

\* C8: merging the merged month-to-date set once more with the same silver
\* rows gives the merged set again, with or without historical rows.
C8_MergeIdempotent ==
    PastMerge => MergeMTD(df_mtd, df_all, today, mtd_start) = df_mtd

\* C8 witness: the merge has run on a non-empty historical slice and a
\* non-empty today slice and dropped a duplicate
C8_Witness ==
    /\ dpc = "merged"
    /\ df_mtd_gold # << >>
    /\ df_today_full # << >>
    /\ Len(df_mtd) < Len(df_mtd_gold) + Len(df_today_full)

\* C9 (as stated): in a run with silver rows, the month-to-date record set
\* the metrics are computed from holds every order_number of the historical
\* slice and of the recent source's rows of today (country-local date)
\* exactly once.
C9_EveryOrderOnce ==
    (PastMerge /\ df_all # << >>) =>
        \A o \in OrderNumbersOf(df_mtd_gold)
                 \cup OrderNumbersOf(query_orders(silver, loop_country,
                                                  today, today, NoLimit)) :
            Cardinality(RowsOf(df_mtd, o)) = 1

OutputKeys == {"last_updated", "today", "same_day_last_week", "mtd",
               "mtd_last_month", "daily_history", "moving_averages"}

ZeroValued(metric_set) == \A k \in MetricKeys : metric_set[k] = 0

\* C10 (as stated): when a fetch returned no rows the output document is
\* still composed, the periods without rows are zero-valued, the series of
\* a country without rows is empty, and the document has every field of
\* the schema, the moving averages with the moving-average fields.
C10_EmptyFetchWellFormed ==
    (/\ dpc = "output"
     /\ \/ df_all = << >> \/ df_today_limited = << >>
        \/ df_last_week = << >> \/ df_mtd_last_month = << >>) =>
        /\ OutputKeys \subseteq DOMAIN data
        /\ MetricKeys \cup {"date"} \subseteq DOMAIN data.today
        /\ MetricKeys \cup {"date"} \subseteq DOMAIN data.same_day_last_week
        /\ MetricKeys \cup {"start_date", "end_date"} \subseteq DOMAIN data.mtd
        /\ MetricKeys \cup {"start_date", "end_date"} \subseteq DOMAIN data.mtd_last_month
        /\ df_today_limited = << >> => ZeroValued(data.today)
        /\ df_last_week = << >> => ZeroValued(data.same_day_last_week)
        /\ df_mtd_last_month = << >> => ZeroValued(data.mtd_last_month)
        /\ df_all = << >> => data.daily_history = << >>
        /\ DOMAIN data.moving_averages = {"ma_7d", "ma_15d"}
        /\ MovingAverageKeys \subseteq DOMAIN data.moving_averages.ma_7d
        /\ MovingAverageKeys \subseteq DOMAIN data.moving_averages.ma_15d

(***************************************************************************)
(* Claims about the calculation functions                                  *)
(***************************************************************************)
ReturnedFrom(function) == fpc = "returned" /\ returned.function = function

\* the rows whose order_gmv is a number
NumericRows(df) ==
    LET Keep(row) == row.order_gmv.numeric
    IN  SelectSeq(df, Keep)

\* C11: a record whose gross value cannot be coerced to a number is
\* excluded from the metrics: total_gmv is the sum over the other records
\* and the order count is the number of the other records' orders
C11_NonNumericExcluded ==
    ReturnedFrom("calculate_metrics") =>
        /\ returned.value["total_gmv"] = 100 * SumGmv(NumericRows(arg_df))
        /\ returned.value["orders"] = NUniqueOrders(NumericRows(arg_df))

\* C12: whenever the combined total is nonzero, the gmv, orders and buyers
\* percentages of the customer group and of the growth group sum to 100
\* within 0.2 (percentages are in tenths)
PairSum(breakdown, key) == breakdown.customer[key] + breakdown.cx_tlp[key]

Near100(tenths) == tenths >= 1000 - 2 /\ tenths <= 1000 + 2

C12_PercentagesSumTo100 ==
    ReturnedFrom("calculate_channel_metrics") =>
        /\ SumGmv(arg_df) > 0 =>
              Near100(PairSum(returned.value, "gmv_percent"))
        /\ arg_df # << >> =>
              /\ Near100(PairSum(returned.value, "orders_percent"))
              /\ Near100(PairSum(returned.value, "buyers_percent"))

(***************************************************************************)
(* Claims about the daily series and the date ranges                       *)
(***************************************************************************)
PastTrend == dpc \in {"trend", "output"}

\* the country-local calendar date of a placement timestamp
LocalDate(instant) == DateIn(instant, TIMEZONES(loop_country))

RowsOfLocalDate(df, date) ==
    {i \in DOMAIN df : LocalDate(df[i].placement_date) = date}

\* C13: in the daily series every record is counted in the entry of the
\* country-local date of its placement timestamp: every such date has an
\* entry, an entry counts the orders placed on its date in local time
\* (today's entry aside, which holds the hour-limited figures), and the
\* entries are ascending by date
C13_DailyBucketsByLocalDate ==
    PastTrend =>
        /\ \A i \in DOMAIN df_all :
              \E k \in DOMAIN daily_metrics :
                  daily_metrics[k]["date"] = LocalDate(df_all[i].placement_date)
        /\ \A k \in DOMAIN daily_metrics :
              daily_metrics[k]["date"] # today =>
                  daily_metrics[k]["orders"] =
                      Cardinality(RowsOfLocalDate(df_all, daily_metrics[k]["date"]))
        /\ \A j, k \in DOMAIN daily_metrics :
              j < k => daily_metrics[j]["date"] < daily_metrics[k]["date"]

\* C14: for a window greater than the length of the series the moving
\* average is the moving average with the window equal to that length,
\* the average of all the entries; for an empty series it is the
\* zero-valued result
C14_WindowBeyondLength ==
    (ReturnedFrom("calculate_moving_average") /\ arg_window > Len(arg_daily)) =>
        /\ returned.value = calculate_moving_average(arg_daily, Len(arg_daily))
        /\ DOMAIN returned.value = MovingAverageKeys
        /\ arg_daily = << >> =>
              \A k \in MovingAverageKeys : returned.value[k] = 0
        /\ arg_daily # << >> =>
              /\ returned.value["gmv"] =
                    RoundDiv(SumKey(arg_daily, "total_gmv_usd"), Len(arg_daily))
              /\ returned.value["orders"] =
                    RoundDiv(100 * SumKey(arg_daily, "orders"), Len(arg_daily))

\* a series of two days with orders averaged over a window of seven
C14_Witness ==
    /\ ReturnedFrom("calculate_moving_average")
    /\ Len(arg_daily) = 2
    /\ arg_window = ShortWindow
    /\ arg_daily[1]["orders"] = 1
    /\ arg_daily[2]["orders"] = 2
    /\ returned.value["orders"] = 150

\* the entries of a daily series dated date
EntriesDated(series, date) == {k \in DOMAIN series : series[k]["date"] = date}

\* C15: in a written artifact of a run with recent-source data, whenever
\* today has orders the daily_history has one entry dated today, it has
\* the MetricSet values of the today headline, and the moving averages
\* are computed from the daily_history that holds it
C15_TodayEntryIsHourLimited ==
    (dpc = "output" /\ df_all # << >>) =>
        /\ RowsOfLocalDate(df_all, today) # {} =>
              /\ Cardinality(EntriesDated(data.daily_history, today)) = 1
              /\ \A k \in EntriesDated(data.daily_history, today) :
                    \A key \in MetricKeys :
                        data.daily_history[k][key] = data.today[key]
        /\ data.moving_averages.ma_7d =
              calculate_moving_average(data.daily_history, ShortWindow)
        /\ data.moving_averages.ma_15d =
              calculate_moving_average(data.daily_history, LongWindow)

\* C16: when the historical slice is empty, the month-to-date record set
\* is the recent-source slice alone for the whole window: it holds every
\* recent-source record placed from the first day of the month through
\* today, and nothing else
C16_FallbackCoversMonth ==
    (PastMerge /\ df_all # << >> /\ df_mtd_gold = << >>) =>
        /\ \A i \in DOMAIN silver :
              (/\ LocalDate(silver[i].placement_date) >= mtd_start
               /\ LocalDate(silver[i].placement_date) <= today)
              => \E j \in DOMAIN df_mtd : df_mtd[j] = silver[i]
        /\ \A j \in DOMAIN df_mtd :
              \E i \in DOMAIN silver : silver[i] = df_mtd[j]

(***************************************************************************)
(* Claims about the stable artifact and the date of the run                *)
(***************************************************************************)
\* the stable artifact of every country the manifest lists has the content
\* of the versioned artifact the manifest names for it
StableMatchesManifest ==
    \A c \in DOMAIN manifestFile.files :
        LET name == manifestFile.files[c]
        IN  /\ name.ts \in DOMAIN versioned[name.country]
            /\ regular[c] = versioned[name.country][name.ts]

LocalSlice(table, date, hour) ==
    LET Keep(row) ==
            /\ LocalDate(row.placement_date) = date
            /\ HourIn(row.placement_date, TIMEZONES(loop_country)) <= hour
    IN  SelectSeq(table, Keep)

\* C18: the date used as today for the hour-bounded fetches is the
\* country-local date of the instant at which the hour cutoff is read, so
\* the today slice and the same-day-last-week slice cover local 00:00 up
\* to and including the current local hour of that day and of the day a
\* week before it
C18_TodayIsCountryLocalDate ==
    dpc \in {"fetched", "merged", "metrics", "trend", "output"} =>
        /\ today = LocalDate(run_instant)
        /\ df_today_limited =
              LocalSlice(silver, LocalDate(run_instant), current_hour)
        /\ df_last_week =
              LocalSlice(silver, LocalDate(run_instant) - WeekDays, current_hour)

====
